---- MODULE Spec2Model ----
(***************************************************************************)
(* State-machine model of the IndustrialWasteExchange contract             *)
(* (src/blockchain/IndustrialWasteExchange.sol).  Every external function  *)
(* is one action; a transaction is atomic, so an action covers the whole   *)
(* call, reverted or not.  A reverted call leaves contract storage and the *)
(* event log as they were; only lastCall (what the caller observes) moves. *)
(* The web client (src/frontend/api.ts) is modelled beside it: its         *)
(* localStorage and the result of its latest call, with one action per     *)
(* exported function.                                                      *)
(***************************************************************************)
EXTENDS Integers, Sequences, FiniteSets, TLC

\* ------------------------------------------------------------------ bounds
NumAddr == 3          \* externally owned accounts 1..NumAddr; 0 is address(0)
MaxBatches == 2       \* createWasteBatch succeeds at most this many times
MaxRequestQuantity == 2 \* largest quantity in a waste-analysis request
MaxTime == 2          \* block.timestamp ranges over 1..MaxTime
MaxQuantity == 1      \* largest quantity argument a caller supplies
UintBits == 1         \* width standing for the 256 bits of uint256

ScriptQuantity == 100 \* the quantity the interaction script passes

NullAddress == 0
Address == 0..NumAddr
Callers == 1..NumAddr
Categories == {"fly_ash"}
QuantityArgs == -1..MaxQuantity
BatchIds == 0..(MaxBatches + 1)

\* An argument read as uint256: a non-negative number is itself, a negative
\* number is its two's complement (2^256 + n, with UintBits standing for 256).
ToUint256(n) == IF n < 0 THEN n + 2 ^ UintBits ELSE n

\* The zero value of struct WasteBatch: what the mapping holds at a key that
\* was never written.  Enum WasteStatus has CREATED as its zero value.
ZeroBatch ==
  [batchId |-> 0, category |-> "", quantity |-> 0, currentOwner |-> NullAddress,
   committedBuyer |-> NullAddress, status |-> "CREATED", createdAt |-> 0]

VARIABLES
  owner,             \* Ownable: the administrator
  nextBatchId,       \* uint256 public nextBatchId
  wasteBatches,      \* mapping(uint256 => WasteBatch)
  reentrancyStatus,  \* ReentrancyGuard flag
  events,            \* the emitted events, in order
  blockTimestamp,    \* block.timestamp of the latest block
  lastCall,          \* the latest call and what its caller observed
  localStorage,      \* the web client's localStorage, key by key
  clientCall         \* the web client's latest call and what it observed

vars == <<owner, nextBatchId, wasteBatches, reentrancyStatus, events,
          blockTimestamp, lastCall, localStorage, clientCall>>

\* The web client's part of the state; the contract's actions leave it.
clientVars == <<localStorage, clientCall>>

storage == <<owner, nextBatchId, wasteBatches, reentrancyStatus, events,
             blockTimestamp>>

\* What a caller observes of a call: the function, the revert reason ("" when
\* the call returned), and the value returned (a batch id or a batch).
NoCall ==
  [fn |-> "constructor", revert |-> "", ret |-> 0, retBatch |-> ZeroBatch]

\* ------------------------------------------------------- web client state
\* localStorage.getItem gives null for a key that is not stored; a field a
\* response does not carry reads as undefined.
Null == "<null>"
Undefined == "<undefined>"

StorageKeys == {"auth_token", "user_id", "user_email", "user_company"}

EmptyStorage == [key \in StorageKeys |-> Null]

\* JavaScript truthiness of a string, null or undefined.
Truthy(value) == value \notin {Null, Undefined, ""}

\* localStorage.setItem stores the string form of what it is given.
ToStorageString(value) ==
  IF value = Undefined THEN "undefined"
  ELSE IF value = Null THEN "null"
  ELSE value

\* A WasteAnalysisResponse.  Amounts are fixed-point: revenue and savings in
\* hundredths, co2 in ten-thousandths, landfill in units.
NoAnalysis ==
  [category |-> "", buyer |-> "", revenue |-> 0, savings |-> 0, co2 |-> 0,
   landfill |-> 0]

\* What the caller of a client function observes: the function, whether its
\* promise resolved or rejected, whether a request went to the backend and
\* the token parameter the interceptor put on it, and the value returned.
NoClientCall ==
  [fn |-> "load", outcome |-> "resolved", requested |-> FALSE,
   tokenParam |-> Null, success |-> FALSE, user |-> Null,
   authenticated |-> FALSE, analysis |-> NoAnalysis]

\* ------------------------------------------------------------ error names
\* The revert reasons of the contract, as the error kinds they signal.
ErrorOf(reason) ==
  CASE reason = "OwnableUnauthorizedAccount" -> "AuthorizationError"
    [] reason = "Not batch owner" -> "AuthorizationError"
    [] reason = "Quantity must be > 0" -> "InvalidQuantityError"
    [] reason = "Invalid seller address" -> "InvalidAddressError"
    [] reason = "Batch does not exist" -> "NotFoundError"
    [] reason = "Batch not found" -> "NotFoundError"
    [] reason = "Not available" -> "InvalidStateError"
    [] reason = "Buyer not committed" -> "InvalidStateError"
    [] reason = "No buyer committed" -> "InvalidStateError"
    [] reason = "Owner cannot buy" -> "SelfDealingError"
    [] reason = "ReentrancyGuardReentrantCall" -> "ReentrancyError"
    [] OTHER -> "none"

\* ------------------------------------------------------------ constructor
Init ==
  /\ owner = CHOOSE deployer \in Callers : TRUE
  /\ nextBatchId = 1
  /\ wasteBatches = [id \in BatchIds |-> ZeroBatch]
  /\ reentrancyStatus = "NOT_ENTERED"
  /\ events = <<>>
  /\ blockTimestamp = 1
  /\ lastCall = NoCall
  /\ localStorage = EmptyStorage
  /\ clientCall = NoClientCall

\* Mutant: the id counter is advanced before validation, so a reverted call
\* still consumes an id.
Reverted_ConsumesId(call, reason) ==
  /\ lastCall' = [call EXCEPT !.revert = reason]
  /\ nextBatchId' = nextBatchId + 1
  /\ UNCHANGED <<owner, wasteBatches, reentrancyStatus, events,
                 blockTimestamp>>

\* Mutant: a reverted call leaves the guard's flag set.
Reverted_StaysEntered(call, reason) ==
  /\ lastCall' = [call EXCEPT !.revert = reason]
  /\ reentrancyStatus' = "ENTERED"
  /\ UNCHANGED <<owner, nextBatchId, wasteBatches, events, blockTimestamp>>

\* A call that reverts: storage and log stay, the caller sees the reason.
Reverted(call, reason) ==
  /\ lastCall' = [call EXCEPT !.revert = reason]
  /\ UNCHANGED storage

\* ----------------------------------------------------------------- events
\* One record shape for the three events; fields an event lacks are zero.
\* a and b are the indexed addresses in declaration order.
WasteBatchCreated(batchId, seller, category, quantity) ==
  [name |-> "WasteBatchCreated", batchId |-> batchId, a |-> seller,
   b |-> NullAddress, category |-> category, quantity |-> quantity]

\* Mutant: the event is emitted without the buyer.
PurchaseCommitted_NoBuyer(batchId, buyer) ==
  [name |-> "PurchaseCommitted", batchId |-> batchId, a |-> NullAddress,
   b |-> NullAddress, category |-> "", quantity |-> 0]

PurchaseCommitted(batchId, buyer) ==
  [name |-> "PurchaseCommitted", batchId |-> batchId, a |-> buyer,
   b |-> NullAddress, category |-> "", quantity |-> 0]

\* Mutant: from and to are passed in the wrong order.
WasteBatchTransferred_Swapped(batchId, from, to) ==
  [name |-> "WasteBatchTransferred", batchId |-> batchId, a |-> to,
   b |-> from, category |-> "", quantity |-> 0]

WasteBatchTransferred(batchId, from, to) ==
  [name |-> "WasteBatchTransferred", batchId |-> batchId, a |-> from,
   b |-> to, category |-> "", quantity |-> 0]

\* ------------------------------------------------------- createWasteBatch
\* Mutant: the seller check is missing.
createRequire_NoSellerCheck(sender, quantity, seller) ==
  IF sender # owner THEN "OwnableUnauthorizedAccount"
  ELSE IF ~(quantity > 0) THEN "Quantity must be > 0"
  ELSE ""

\* Mutant: the quantity boundary is off by one (>= instead of >).
createRequire_GeZero(sender, quantity, seller) ==
  IF sender # owner THEN "OwnableUnauthorizedAccount"
  ELSE IF ~(quantity >= 0) THEN "Quantity must be > 0"
  ELSE IF seller = NullAddress THEN "Invalid seller address"
  ELSE ""

\* Mutant: the onlyOwner modifier is left off the function.
createRequire_NoOwnerCheck(sender, quantity, seller) ==
  IF ~(quantity > 0) THEN "Quantity must be > 0"
  ELSE IF ~(seller # NullAddress) THEN "Invalid seller address"
  ELSE ""

\* onlyOwner, then the two require statements; "" when all pass.
createRequire(sender, quantity, seller) ==
  IF sender # owner THEN "OwnableUnauthorizedAccount"
  ELSE IF ~(quantity > 0) THEN "Quantity must be > 0"
  ELSE IF seller = NullAddress THEN "Invalid seller address"
  ELSE ""

\* Mutant: the two address fields of the struct literal are swapped.
newWasteBatch_AddressesSwapped(batchId, category, quantity, seller, now) ==
  [batchId |-> batchId, category |-> category, quantity |-> quantity,
   currentOwner |-> NullAddress, committedBuyer |-> seller,
   status |-> "CREATED", createdAt |-> now]

newWasteBatch(batchId, category, quantity, seller, now) ==
  [batchId |-> batchId, category |-> category, quantity |-> quantity,
   currentOwner |-> seller, committedBuyer |-> NullAddress,
   status |-> "CREATED", createdAt |-> now]

createWasteBatch(sender, category, quantityArg, seller) ==
  LET quantity == ToUint256(quantityArg)
      call == [NoCall EXCEPT !.fn = "createWasteBatch"]
      reason == createRequire(sender, quantity, seller)
  IN IF reason # ""
       THEN Reverted(call, reason)
       ELSE \E now \in blockTimestamp..MaxTime :
              LET batchId == nextBatchId IN
              /\ nextBatchId <= MaxBatches
              /\ wasteBatches' = [wasteBatches EXCEPT ![batchId] =
                    newWasteBatch(batchId, category, quantity, seller, now)]
              /\ nextBatchId' = nextBatchId + 1
              /\ events' = Append(events,
                    WasteBatchCreated(batchId, seller, category, quantity))
              /\ blockTimestamp' = now
              /\ lastCall' = [call EXCEPT !.ret = batchId]
              /\ UNCHANGED <<owner, reentrancyStatus>>

\* ------------------------------------------------------- commitToPurchase
\* Mutant: the status check is missing.
commitRequire_NoStatusCheck(sender, batch) ==
  IF reentrancyStatus = "ENTERED" THEN "ReentrancyGuardReentrantCall"
  ELSE IF ~(batch.batchId # 0) THEN "Batch does not exist"
  ELSE IF ~(sender # batch.currentOwner) THEN "Owner cannot buy"
  ELSE ""

\* Mutant: the existence check is missing.
commitRequire_NoExistenceCheck(sender, batch) ==
  IF reentrancyStatus = "ENTERED" THEN "ReentrancyGuardReentrantCall"
  ELSE IF ~(batch.status = "CREATED") THEN "Not available"
  ELSE IF ~(sender # batch.currentOwner) THEN "Owner cannot buy"
  ELSE ""

\* Mutant: the nonReentrant modifier is left off the function.
commitRequire_NoGuard(sender, batch) ==
  IF ~(batch.batchId # 0) THEN "Batch does not exist"
  ELSE IF ~(batch.status = "CREATED") THEN "Not available"
  ELSE IF ~(sender # batch.currentOwner) THEN "Owner cannot buy"
  ELSE ""

\* Mutant: self-dealing is tested before the status.
commitChecks_OwnerFirst(sender, batch) ==
  IF ~(batch.batchId # 0) THEN "Batch does not exist"
  ELSE IF ~(sender # batch.currentOwner) THEN "Owner cannot buy"
  ELSE IF ~(batch.status = "CREATED") THEN "Not available"
  ELSE ""

\* Mutant: the function is restricted to the administrator.
commitRequire_OnlyOwner(sender, batch) ==
  IF sender # owner THEN "OwnableUnauthorizedAccount"
  ELSE IF reentrancyStatus = "ENTERED" THEN "ReentrancyGuardReentrantCall"
  ELSE IF ~(batch.batchId # 0) THEN "Batch does not exist"
  ELSE IF ~(batch.status = "CREATED") THEN "Not available"
  ELSE IF ~(sender # batch.currentOwner) THEN "Owner cannot buy"
  ELSE ""

\* Mutant: the self-dealing check is missing.
commitChecks_NoSelfDealingCheck(sender, batch) ==
  IF ~(batch.batchId # 0) THEN "Batch does not exist"
  ELSE IF ~(batch.status = "CREATED") THEN "Not available"
  ELSE ""

\* The require statements of the function body, in order.
commitChecks(sender, batch) ==
  IF ~(batch.batchId # 0) THEN "Batch does not exist"
  ELSE IF ~(batch.status = "CREATED") THEN "Not available"
  ELSE IF ~(sender # batch.currentOwner) THEN "Owner cannot buy"
  ELSE ""

\* The nonReentrant modifier's entry test, then the body's requires.
commitRequire(sender, batch) ==
  IF reentrancyStatus = "ENTERED" THEN "ReentrancyGuardReentrantCall"
  ELSE commitChecks(sender, batch)

\* Mutant: the status is advanced but the buyer is not recorded.
commitEffect_NoBuyer(sender, batch) ==
  [batch EXCEPT !.status = "COMMITTED"]

\* Mutant: the commit writes the caller into currentOwner as well.
commitEffect_TakesOwnership(sender, batch) ==
  [batch EXCEPT !.committedBuyer = sender, !.currentOwner = sender,
                !.status = "COMMITTED"]

commitEffect(sender, batch) ==
  [batch EXCEPT !.committedBuyer = sender, !.status = "COMMITTED"]

\* Mutant: the commit is written to every open batch the caller may buy.
commitToPurchase_AllOpenBatches(sender, batchId) ==
  LET batch == wasteBatches[batchId]
      call == [NoCall EXCEPT !.fn = "commitToPurchase"]
      reason == commitRequire(sender, batch)
  IN IF reason # ""
       THEN Reverted(call, reason)
       ELSE /\ wasteBatches' = [id \in BatchIds |->
                  IF commitRequire(sender, wasteBatches[id]) = ""
                    THEN commitEffect(sender, wasteBatches[id])
                    ELSE wasteBatches[id]]
            /\ events' = Append(events, PurchaseCommitted(batchId, sender))
            /\ lastCall' = call
            /\ UNCHANGED <<owner, nextBatchId, reentrancyStatus,
                           blockTimestamp>>

commitToPurchase(sender, batchId) ==
  LET batch == wasteBatches[batchId]
      call == [NoCall EXCEPT !.fn = "commitToPurchase"]
      reason == commitRequire(sender, batch)
  IN IF reason # ""
       THEN Reverted(call, reason)
       ELSE /\ wasteBatches' = [wasteBatches EXCEPT ![batchId] =
                                   commitEffect(sender, batch)]
            /\ events' = Append(events, PurchaseCommitted(batchId, sender))
            /\ lastCall' = call
            /\ UNCHANGED <<owner, nextBatchId, reentrancyStatus,
                           blockTimestamp>>

\* ----------------------------------------------------- transferWasteBatch
\* Mutant: the ownership check is missing.
transferRequire_NoOwnerCheck(sender, batch) ==
  IF reentrancyStatus = "ENTERED" THEN "ReentrancyGuardReentrantCall"
  ELSE IF ~(batch.batchId # 0) THEN "Batch does not exist"
  ELSE IF ~(batch.status = "COMMITTED") THEN "Buyer not committed"
  ELSE IF ~(batch.committedBuyer # NullAddress) THEN "No buyer committed"
  ELSE ""

\* Mutant: the status check is missing.
transferRequire_NoStatusCheck(sender, batch) ==
  IF reentrancyStatus = "ENTERED" THEN "ReentrancyGuardReentrantCall"
  ELSE IF ~(batch.batchId # 0) THEN "Batch does not exist"
  ELSE IF ~(sender = batch.currentOwner) THEN "Not batch owner"
  ELSE IF ~(batch.committedBuyer # NullAddress) THEN "No buyer committed"
  ELSE ""

\* Mutant: ownership is tested before the status.
transferChecks_OwnerFirst(sender, batch) ==
  IF ~(batch.batchId # 0) THEN "Batch does not exist"
  ELSE IF ~(sender = batch.currentOwner) THEN "Not batch owner"
  ELSE IF ~(batch.status = "COMMITTED") THEN "Buyer not committed"
  ELSE IF ~(batch.committedBuyer # NullAddress) THEN "No buyer committed"
  ELSE ""

\* The require statements of the function body, in order.
transferChecks(sender, batch) ==
  IF ~(batch.batchId # 0) THEN "Batch does not exist"
  ELSE IF ~(batch.status = "COMMITTED") THEN "Buyer not committed"
  ELSE IF ~(sender = batch.currentOwner) THEN "Not batch owner"
  ELSE IF ~(batch.committedBuyer # NullAddress) THEN "No buyer committed"
  ELSE ""

\* The nonReentrant modifier's entry test, then the body's requires.
transferRequire(sender, batch) ==
  IF reentrancyStatus = "ENTERED" THEN "ReentrancyGuardReentrantCall"
  ELSE transferChecks(sender, batch)

\* Mutant: the struct is rebuilt and createdAt is left at its zero value.
transferEffect_DropsCreatedAt(batch) ==
  [batch EXCEPT !.currentOwner = batch.committedBuyer,
                !.status = "TRANSFERRED", !.createdAt = 0]

transferEffect(batch) ==
  [batch EXCEPT !.currentOwner = batch.committedBuyer,
                !.status = "TRANSFERRED"]

transferWasteBatch(sender, batchId) ==
  LET batch == wasteBatches[batchId]
      call == [NoCall EXCEPT !.fn = "transferWasteBatch"]
      reason == transferRequire(sender, batch)
  IN IF reason # ""
       THEN Reverted(call, reason)
       ELSE /\ wasteBatches' = [wasteBatches EXCEPT ![batchId] =
                                   transferEffect(batch)]
            /\ events' = Append(events,
                  WasteBatchTransferred(batchId, batch.currentOwner,
                                        batch.committedBuyer))
            /\ lastCall' = call
            /\ UNCHANGED <<owner, nextBatchId, reentrancyStatus,
                           blockTimestamp>>

\* ---------------------------------------------------------- getWasteBatch
\* The view function on a given mapping: whether it returns, and what.  It
\* reads no msg.sender, so the action takes none.
\* Mutant: the argument is tested instead of the stored batchId.
readWasteBatch_TestsArgument(batches, batchId) ==
  IF ~(batchId # 0)
    THEN [revert |-> "Batch not found", batch |-> ZeroBatch]
    ELSE [revert |-> "", batch |-> batches[batchId]]

readWasteBatch(batches, batchId) ==
  IF ~(batches[batchId].batchId # 0)
    THEN [revert |-> "Batch not found", batch |-> ZeroBatch]
    ELSE [revert |-> "", batch |-> batches[batchId]]

getWasteBatch(batchId) ==
  LET call == [NoCall EXCEPT !.fn = "getWasteBatch"]
      view == readWasteBatch(wasteBatches, batchId)
  IN /\ lastCall' = [call EXCEPT !.revert = view.revert,
                                 !.retBatch = view.batch]
     /\ UNCHANGED storage

\* ------------------------------------------------------------------- spec
Next ==
  \/ \E sender \in Callers, category \in Categories,
        quantityArg \in QuantityArgs, seller \in Address :
       /\ createWasteBatch(sender, category, quantityArg, seller)
       /\ UNCHANGED clientVars
  \/ \E sender \in Callers, batchId \in BatchIds :
       /\ commitToPurchase(sender, batchId)
       /\ UNCHANGED clientVars
  \/ \E sender \in Callers, batchId \in BatchIds :
       /\ transferWasteBatch(sender, batchId)
       /\ UNCHANGED clientVars
  \/ \E batchId \in BatchIds :
       /\ getWasteBatch(batchId)
       /\ UNCHANGED clientVars

Spec == Init /\ [][Next]_vars

\* The batch has been created.
Exists(batchId) == wasteBatches[batchId].batchId # 0

\* -------------------------------------------------------------- fairness
\* The callers' part: on every batch some caller other than its owner keeps
\* trying to commit while it is CREATED, and its current owner keeps trying
\* to transfer it while it is COMMITTED.
eligibleCommit(batchId) ==
  \E sender \in Callers :
    /\ Exists(batchId)
    /\ wasteBatches[batchId].status = "CREATED"
    /\ sender # wasteBatches[batchId].currentOwner
    /\ commitToPurchase(sender, batchId)

ownerTransfer(batchId) ==
  /\ wasteBatches[batchId].status = "COMMITTED"
  /\ transferWasteBatch(wasteBatches[batchId].currentOwner, batchId)

SpecFair ==
  /\ Spec
  /\ \A batchId \in 1..MaxBatches :
       /\ WF_vars(eligibleCommit(batchId) /\ UNCHANGED clientVars)
       /\ WF_vars(ownerTransfer(batchId) /\ UNCHANGED clientVars)

\* ----------------------------------------------------- interaction script
\* The script's first transaction: signer 0 (the deployer, hence the
\* administrator) creates a "fly_ash" batch of ScriptQuantity for signer 1 on
\* the registry as deployed.  Its later transactions, commitToPurchase(1) by
\* signer 2, transferWasteBatch(1) by signer 1 and getWasteBatch(1), are calls
\* Next already makes.
scriptCreate ==
  /\ nextBatchId = 1
  /\ \E seller \in Callers \ {owner} :
       createWasteBatch(owner, "fly_ash", ScriptQuantity, seller)

NextScript ==
  \/ scriptCreate /\ UNCHANGED clientVars
  \/ Next

SpecScript == Init /\ [][NextScript]_vars

\* ------------------------------------------------------- guarded calls
\* A guarded call taken apart at the modifier: nonReentrant sets the flag on
\* entry and clears it on exit, and the function body runs in between.  The
\* contract calls no other contract, so nothing in it runs between entry and
\* exit; the steps below open that interval so that an invocation arriving
\* in it can be examined.  The arguments of the call in flight are read by
\* its body only, so they are drawn when the body runs.
GuardedFunctions == {"commitToPurchase", "transferWasteBatch"}

\* Entry of a top-level guarded call: the flag is set.
enterGuarded ==
  /\ reentrancyStatus = "NOT_ENTERED"
  /\ reentrancyStatus' = "ENTERED"
  /\ UNCHANGED <<owner, nextBatchId, wasteBatches, events, blockTimestamp,
                 lastCall>>

\* The body and exit of the call in flight: its requires, its effect, and
\* the flag cleared (by the modifier on return, by the revert otherwise).
exitGuarded(fn, sender, batchId) ==
  LET batch == wasteBatches[batchId]
      call == [NoCall EXCEPT !.fn = fn]
      reason == IF fn = "commitToPurchase"
                  THEN commitChecks(sender, batch)
                  ELSE transferChecks(sender, batch)
  IN /\ reentrancyStatus = "ENTERED"
     /\ reentrancyStatus' = "NOT_ENTERED"
     /\ IF reason # ""
          THEN /\ lastCall' = [call EXCEPT !.revert = reason]
               /\ UNCHANGED <<wasteBatches, events>>
          ELSE /\ wasteBatches' = [wasteBatches EXCEPT ![batchId] =
                      IF fn = "commitToPurchase"
                        THEN commitEffect(sender, batch)
                        ELSE transferEffect(batch)]
               /\ events' = Append(events,
                      IF fn = "commitToPurchase"
                        THEN PurchaseCommitted(batchId, sender)
                        ELSE WasteBatchTransferred(batchId,
                               batch.currentOwner, batch.committedBuyer))
               /\ lastCall' = call
     /\ UNCHANGED <<owner, nextBatchId, blockTimestamp>>

\* An invocation of a guarded function arriving while one is in flight.
nestedCall(fn, sender, batchId) ==
  /\ reentrancyStatus = "ENTERED"
  /\ IF fn = "commitToPurchase"
       THEN commitToPurchase(sender, batchId)
       ELSE transferWasteBatch(sender, batchId)

NextGuard ==
  \/ enterGuarded /\ UNCHANGED clientVars
  \/ \E fn \in GuardedFunctions, sender \in Callers, batchId \in BatchIds :
       nestedCall(fn, sender, batchId) /\ UNCHANGED clientVars
  \/ \E fn \in GuardedFunctions, sender \in Callers, batchId \in BatchIds :
       exitGuarded(fn, sender, batchId) /\ UNCHANGED clientVars
  \/ /\ reentrancyStatus = "NOT_ENTERED"
     /\ Next

SpecGuard == Init /\ [][NextGuard]_vars

\* ------------------------------------------------------------ web client
\* The client functions of src/frontend/api.ts.  Each action is one call
\* with the backend's answer to its request as input; the contract is not
\* touched.  The e-mail, password and listing fields a call sends do not
\* enter what the client does with the answer and are left out.
contractVars == <<storage, lastCall>>

AuthTokens == {Undefined, "", "token-a", "token-b"}

Users ==
  [id : {"user-1", "user-2"}, email : {"ops@acme.example"},
   company_name : {Undefined, "Acme"}]

\* The answer to an auth request: the request fails (network error, timeout,
\* status outside 2xx: axios rejects), or it carries data whose success,
\* token and user fields may each be missing.
AuthResponses ==
  [rejected : BOOLEAN, success : BOOLEAN, token : AuthTokens,
   hasUser : BOOLEAN, user : Users]

\* The request interceptor: the token parameter it puts on a request.
interceptedToken(store) ==
  IF Truthy(store["auth_token"]) THEN store["auth_token"] ELSE Null

\* The three setItem calls that read response.data.user.
storeUser(store, user) ==
  [store EXCEPT
     !["user_id"] = ToStorageString(user.id),
     !["user_email"] = ToStorageString(user.email),
     !["user_company"] =
        ToStorageString(IF Truthy(user.company_name)
                          THEN user.company_name ELSE "")]

\* Mutant: the session is stored whenever the response carries a token.
storesSession_TokenOnly(data) == Truthy(data.token)

\* The condition under which the session is stored.
storesSession(data) == data.success /\ Truthy(data.token)

\* A failed request is rethrown.  With success and a token the token is
\* stored first; reading the fields of a missing user then throws, which is
\* rethrown as well.  Otherwise the data is returned and nothing is stored.
registerUser(response) ==
  LET call == [NoClientCall EXCEPT !.fn = "registerUser", !.requested = TRUE,
                 !.tokenParam = interceptedToken(localStorage)]
  IN /\ IF response.rejected
          THEN /\ clientCall' = [call EXCEPT !.outcome = "rejected"]
               /\ UNCHANGED localStorage
          ELSE IF storesSession(response)
            THEN LET withToken ==
                       [localStorage EXCEPT !["auth_token"] =
                                              ToStorageString(response.token)]
                 IN IF response.hasUser
                      THEN /\ localStorage' =
                                storeUser(withToken, response.user)
                           /\ clientCall' =
                                [call EXCEPT !.success = response.success]
                      ELSE /\ localStorage' = withToken
                           /\ clientCall' =
                                [call EXCEPT !.outcome = "rejected"]
            ELSE /\ clientCall' = [call EXCEPT !.success = response.success]
                 /\ UNCHANGED localStorage
     /\ UNCHANGED contractVars

\* The same steps against the login endpoint.
loginUser(response) ==
  LET call == [NoClientCall EXCEPT !.fn = "loginUser", !.requested = TRUE,
                 !.tokenParam = interceptedToken(localStorage)]
  IN /\ IF response.rejected
          THEN /\ clientCall' = [call EXCEPT !.outcome = "rejected"]
               /\ UNCHANGED localStorage
          ELSE IF storesSession(response)
            THEN LET withToken ==
                       [localStorage EXCEPT !["auth_token"] =
                                              ToStorageString(response.token)]
                 IN IF response.hasUser
                      THEN /\ localStorage' =
                                storeUser(withToken, response.user)
                           /\ clientCall' =
                                [call EXCEPT !.success = response.success]
                      ELSE /\ localStorage' = withToken
                           /\ clientCall' =
                                [call EXCEPT !.outcome = "rejected"]
            ELSE /\ clientCall' = [call EXCEPT !.success = response.success]
                 /\ UNCHANGED localStorage
     /\ UNCHANGED contractVars

logoutUser ==
  /\ localStorage' = [localStorage EXCEPT !["auth_token"] = Null,
                                         !["user_id"] = Null,
                                         !["user_email"] = Null,
                                         !["user_company"] = Null]
  /\ clientCall' = [NoClientCall EXCEPT !.fn = "logoutUser"]
  /\ UNCHANGED contractVars

\* Without a token null is returned at once; otherwise the user of the
\* answer, or null when the request fails or the answer carries none.
getCurrentUser(response) ==
  LET token == localStorage["auth_token"]
      call == [NoClientCall EXCEPT !.fn = "getCurrentUser"]
  IN /\ IF ~Truthy(token)
          THEN clientCall' = call
          ELSE clientCall' =
                 [call EXCEPT !.requested = TRUE,
                              !.tokenParam = interceptedToken(localStorage),
                              !.user = IF ~response.rejected
                                          /\ response.hasUser
                                         THEN response.user.id ELSE Null]
     /\ UNCHANGED <<localStorage, contractVars>>

isAuthenticated ==
  /\ clientCall' = [NoClientCall EXCEPT
                      !.fn = "isAuthenticated",
                      !.authenticated = Truthy(localStorage["auth_token"])]
  /\ UNCHANGED <<localStorage, contractVars>>

\* A waste-analysis request; only its quantity enters the client's result.
AnalysisRequests ==
  [description : {"fly ash"}, quantity : 0..MaxRequestQuantity,
   hazard : {"low"}, location : {"Pune"}]

BackendAnalyses ==
  {[category |-> "Fly Ash", buyer |-> "Cement Plant", revenue |-> 120,
    savings |-> 30, co2 |-> 5, landfill |-> 40]}

\* The answer to the analysis request: a network error, a timeout, or a
\* response with a status and a body that may be empty.
AnalysisResponses ==
  [kind : {"error", "timeout", "response"}, status : {200, 201, 500},
   hasBody : BOOLEAN, body : BackendAnalyses]

\* axios rejects when no response arrives or its status is outside 2xx.
requestFails(response) ==
  \/ response.kind # "response"
  \/ ~(response.status >= 200 /\ response.status < 300)

\* The mock result of the catch block: quantity * 0.50, quantity * 0.15 and
\* (quantity * 2.5) / 1000 in fixed point.
mockAnalysis(data) ==
  [category |-> "Industrial Waste", buyer |-> "Recycling Facility",
   revenue |-> data.quantity * 50, savings |-> data.quantity * 15,
   co2 |-> data.quantity * 25, landfill |-> 85]

\* Mutant: the answer is returned whenever the request did not fail.
returnsAnswer_AnyStatus(response) ==
  ~requestFails(response) /\ response.hasBody

\* The try block returns the answer: status 200 and a body.
returnsAnswer(response) ==
  /\ ~requestFails(response)
  /\ response.status = 200
  /\ response.hasBody

analyzeWaste(data, response) ==
  /\ clientCall' =
       [NoClientCall EXCEPT
          !.fn = "analyzeWaste", !.requested = TRUE,
          !.tokenParam = interceptedToken(localStorage),
          !.analysis = IF returnsAnswer(response)
                         THEN response.body ELSE mockAnalysis(data)]
  /\ UNCHANGED <<localStorage, contractVars>>

NextClient ==
  \/ \E response \in AuthResponses : registerUser(response)
  \/ \E response \in AuthResponses : loginUser(response)
  \/ logoutUser
  \/ \E response \in AuthResponses : getCurrentUser(response)
  \/ isAuthenticated
  \/ \E data \in AnalysisRequests, response \in AnalysisResponses :
       analyzeWaste(data, response)

SpecClient == Init /\ [][NextClient]_vars


\* ================================================================ claims

\* Positions in the log of the events of one name about one batch.
EventsNamed(name, batchId) ==
  {i \in DOMAIN events :
     events[i].name = name /\ events[i].batchId = batchId}

IsCreatedEvent(e) == e.name = "WasteBatchCreated"

\* A commit has succeeded on the batch: its PurchaseCommitted event is logged.
CommitSucceeded(batchId) == EventsNamed("PurchaseCommitted", batchId) # {}

\* C1: for every batch and every step of any caller, the status either stays
\* or moves CREATED -> COMMITTED or COMMITTED -> TRANSFERRED; nothing skips
\* COMMITTED, nothing moves backwards, TRANSFERRED is never left.
C1_StatusOnlyForward ==
  [][\A batchId \in BatchIds :
       LET s == wasteBatches[batchId].status
           t == wasteBatches'[batchId].status
       IN s # t => \/ s = "CREATED" /\ t = "COMMITTED"
                   \/ s = "COMMITTED" /\ t = "TRANSFERRED"]_vars

C1_Witness ==
  \E batchId \in BatchIds :
    Exists(batchId) /\ wasteBatches[batchId].status = "TRANSFERRED"

\* C2: a successful commitToPurchase(id) by B sets committedBuyer to B; once
\* a commit has succeeded on id, no step of any operation changes
\* committedBuyer of id, and every further commitToPurchase(id) by any caller
\* reverts with InvalidStateError.
C2_CommittedBuyerFixed ==
  [][\A batchId \in BatchIds :
       /\ \A sender \in Callers :
            commitToPurchase(sender, batchId) =>
              /\ lastCall'.revert = "" =>
                   wasteBatches'[batchId].committedBuyer = sender
              /\ CommitSucceeded(batchId) =>
                   ErrorOf(lastCall'.revert) = "InvalidStateError"
       /\ CommitSucceeded(batchId) =>
            wasteBatches'[batchId].committedBuyer =
              wasteBatches[batchId].committedBuyer]_vars

C2_Witness ==
  /\ lastCall.fn = "commitToPurchase"
  /\ lastCall.revert = "Not available"
  /\ \E batchId \in BatchIds :
       /\ wasteBatches[batchId].status = "TRANSFERRED"
       /\ \E i \in EventsNamed("PurchaseCommitted", batchId) :
            events[i].a = wasteBatches[batchId].committedBuyer

\* C3: calls are serialised, so two competing commits on a CREATED batch run
\* in one of the two orders: a commit by an eligible caller on a batch with no
\* commit yet succeeds and makes its caller committedBuyer, a commit on a
\* batch that already has one reverts with InvalidStateError and changes
\* nothing, and the log never holds two PurchaseCommitted events of a batch.
C3_FirstCommitWins ==
  /\ [](\A batchId \in BatchIds :
          Cardinality(EventsNamed("PurchaseCommitted", batchId)) <= 1)
  /\ [][lastCall'.fn = "commitToPurchase" =>
          \A sender \in Callers, batchId \in BatchIds :
            commitToPurchase(sender, batchId) =>
              /\ ( /\ Exists(batchId)
                   /\ ~CommitSucceeded(batchId)
                   /\ sender # wasteBatches[batchId].currentOwner )
                 => /\ lastCall'.revert = ""
                    /\ wasteBatches'[batchId].committedBuyer = sender
              /\ CommitSucceeded(batchId)
                 => /\ ErrorOf(lastCall'.revert) = "InvalidStateError"
                    /\ UNCHANGED storage]_vars

\* Two callers were both eligible for the batch, one holds the commitment and
\* the latest call is a commit that lost.
C3_Witness ==
  /\ lastCall.fn = "commitToPurchase"
  /\ lastCall.revert = "Not available"
  /\ \E batchId \in BatchIds :
       /\ wasteBatches[batchId].status = "COMMITTED"
       /\ Cardinality(EventsNamed("PurchaseCommitted", batchId)) = 1
       /\ \E winner, loser \in Callers :
            /\ winner # loser
            /\ loser # wasteBatches[batchId].currentOwner
            /\ wasteBatches[batchId].committedBuyer = winner

\* C4: currentOwner of a batch is the seller named at creation until the one
\* successful transferWasteBatch of that batch, which sets it to the value
\* committedBuyer held before the call; no other step changes it.
C4_OwnerChangesOnlyByTransfer ==
  /\ [](\A batchId \in BatchIds :
          Exists(batchId) =>
            LET created == EventsNamed("WasteBatchCreated", batchId)
                moved == EventsNamed("WasteBatchTransferred", batchId)
            IN /\ Cardinality(created) = 1
               /\ Cardinality(moved) <= 1
               /\ moved = {} =>
                    \A i \in created :
                      wasteBatches[batchId].currentOwner = events[i].a
               /\ \A i \in moved :
                    wasteBatches[batchId].currentOwner = events[i].b)
  /\ [][/\ \A batchId \in BatchIds :
             ( Exists(batchId)
               /\ wasteBatches'[batchId].currentOwner #
                    wasteBatches[batchId].currentOwner )
             => /\ lastCall'.fn = "transferWasteBatch"
                /\ lastCall'.revert = ""
                /\ \E sender \in Callers : transferWasteBatch(sender, batchId)
                /\ wasteBatches'[batchId].currentOwner =
                     wasteBatches[batchId].committedBuyer
        /\ ( lastCall'.fn = "createWasteBatch" /\ lastCall'.revert = "" ) =>
             \A sender \in Callers, category \in Categories,
                quantityArg \in QuantityArgs, seller \in Address :
               createWasteBatch(sender, category, quantityArg, seller)
               => wasteBatches'[lastCall'.ret].currentOwner = seller]_vars

C4_Witness ==
  \E batchId \in BatchIds :
    /\ wasteBatches[batchId].status = "TRANSFERRED"
    /\ \E i \in EventsNamed("WasteBatchCreated", batchId) :
         events[i].a # wasteBatches[batchId].currentOwner
    /\ \E i \in EventsNamed("WasteBatchTransferred", batchId) :
         events[i].b = wasteBatches[batchId].currentOwner

\* C5: for every existing batch, committedBuyer is non-zero exactly when the
\* status is COMMITTED or TRANSFERRED.
C5_BuyerSetIffCommitted ==
  \A batchId \in BatchIds :
    Exists(batchId) =>
      ( wasteBatches[batchId].committedBuyer # NullAddress
        <=> wasteBatches[batchId].status \in {"COMMITTED", "TRANSFERRED"} )

C5_Witness ==
  \E i, j \in BatchIds :
    /\ Exists(i) /\ wasteBatches[i].status = "CREATED"
    /\ Exists(j) /\ wasteBatches[j].status = "COMMITTED"

\* C6: the k-th WasteBatchCreated event carries id k and nextBatchId is one
\* more than the number of batches created; a successful createWasteBatch
\* returns the counter's value and advances it by one, and no other call
\* (reverted create, commit, transfer, get) moves the counter.
C6_SequentialIds ==
  /\ [](LET created == SelectSeq(events, IsCreatedEvent)
        IN /\ nextBatchId = Len(created) + 1
           /\ \A k \in DOMAIN created : created[k].batchId = k)
  /\ [][/\ nextBatchId' # nextBatchId =>
             /\ lastCall'.fn = "createWasteBatch"
             /\ lastCall'.revert = ""
             /\ lastCall'.ret = nextBatchId
             /\ nextBatchId' = nextBatchId + 1
        /\ ( lastCall'.fn = "createWasteBatch" /\ lastCall'.revert = "" )
             => /\ lastCall'.ret = nextBatchId
                /\ nextBatchId' = nextBatchId + 1]_vars

C6_Witness ==
  /\ lastCall.fn = "createWasteBatch"
  /\ lastCall.revert = ""
  /\ lastCall.ret = 2
  /\ nextBatchId = 3

\* C7: createWasteBatch reverts, leaving batches, counter and log as they
\* were, when the caller is not the administrator (AuthorizationError), when
\* the quantity parameter is not > 0 (InvalidQuantityError), or when seller is
\* address(0) (InvalidAddressError).  quantity is the uint256 the function
\* receives.
C7_CreateRejectsWithoutMutation ==
  [][lastCall'.fn = "createWasteBatch" =>
       \A sender \in Callers, category \in Categories,
          quantityArg \in QuantityArgs, seller \in Address :
         LET quantity == ToUint256(quantityArg) IN
         ( /\ (sender # owner \/ ~(quantity > 0) \/ seller = NullAddress)
           /\ createWasteBatch(sender, category, quantityArg, seller) )
         => /\ lastCall'.revert # ""
            /\ UNCHANGED <<wasteBatches, nextBatchId, events>>
            /\ sender # owner =>
                 ErrorOf(lastCall'.revert) = "AuthorizationError"
            /\ (sender = owner /\ ~(quantity > 0)) =>
                 ErrorOf(lastCall'.revert) = "InvalidQuantityError"
            /\ (sender = owner /\ quantity > 0 /\ seller = NullAddress) =>
                 ErrorOf(lastCall'.revert) = "InvalidAddressError"]_vars

C7_Witness ==
  /\ lastCall.fn = "createWasteBatch"
  /\ lastCall.revert = "Invalid seller address"
  /\ nextBatchId = 2
  /\ events # <<>>

C9_CreatedBatchReadsBack ==
  [][( lastCall'.fn = "createWasteBatch" /\ lastCall'.revert = "" ) =>
       \A sender \in Callers, category \in Categories,
          quantityArg \in QuantityArgs, seller \in Address :
         createWasteBatch(sender, category, quantityArg, seller)
         => LET view == readWasteBatch(wasteBatches', lastCall'.ret)
            IN /\ view.revert = ""
               /\ view.batch.batchId = lastCall'.ret
               /\ view.batch.status = "CREATED"
               /\ view.batch.currentOwner = seller
               /\ view.batch.committedBuyer = NullAddress
               /\ view.batch.category = category
               /\ view.batch.quantity = ToUint256(quantityArg)]_vars

C9_Witness ==
  /\ lastCall.fn = "createWasteBatch"
  /\ lastCall.revert = ""
  /\ readWasteBatch(wasteBatches, lastCall.ret).batch.status = "CREATED"
  /\ \E batchId \in BatchIds :
       batchId # lastCall.ret /\ wasteBatches[batchId].status = "TRANSFERRED"

\* C10: commitToPurchase reverts with NotFoundError on an id never allocated
\* (0 included), with InvalidStateError on a COMMITTED or TRANSFERRED batch,
\* and with SelfDealingError when the caller is the current owner of a batch
\* open for commitment.
C10_CommitErrors ==
  [][lastCall'.fn = "commitToPurchase" =>
       \A sender \in Callers, batchId \in BatchIds :
         commitToPurchase(sender, batchId) =>
           LET batch == wasteBatches[batchId]
               allocated == 1 <= batchId /\ batchId < nextBatchId
           IN /\ ~allocated =>
                   ErrorOf(lastCall'.revert) = "NotFoundError"
              /\ ( allocated
                   /\ batch.status \in {"COMMITTED", "TRANSFERRED"} )
                 => ErrorOf(lastCall'.revert) = "InvalidStateError"
              /\ ( allocated /\ batch.status = "CREATED"
                   /\ sender = batch.currentOwner )
                 => ErrorOf(lastCall'.revert) = "SelfDealingError"]_vars

C10_Witness ==
  /\ lastCall.fn = "commitToPurchase"
  /\ lastCall.revert = "Owner cannot buy"
  /\ \E i, j \in BatchIds :
       /\ wasteBatches[i].status = "COMMITTED"
       /\ Exists(j) /\ wasteBatches[j].status = "CREATED"

\* C11: a successful commitToPurchase(id) by B sets committedBuyer of id to B
\* and its status to COMMITTED, and leaves batchId, category, quantity,
\* currentOwner and createdAt of id, and the counter, as they were.
C11_CommitFrame ==
  [][( lastCall'.fn = "commitToPurchase" /\ lastCall'.revert = "" ) =>
       \A sender \in Callers, batchId \in BatchIds :
         commitToPurchase(sender, batchId) =>
           LET old == wasteBatches[batchId]
               new == wasteBatches'[batchId]
           IN /\ new.committedBuyer = sender
              /\ new.status = "COMMITTED"
              /\ new.batchId = old.batchId
              /\ new.category = old.category
              /\ new.quantity = old.quantity
              /\ new.currentOwner = old.currentOwner
              /\ new.createdAt = old.createdAt
              /\ nextBatchId' = nextBatchId]_vars

C11_Witness ==
  /\ lastCall.fn = "commitToPurchase"
  /\ lastCall.revert = ""
  /\ \E batchId \in BatchIds :
       /\ wasteBatches[batchId].status = "COMMITTED"
       /\ wasteBatches[batchId].committedBuyer = owner
       /\ wasteBatches[batchId].currentOwner # owner

\* C12 as stated: transferWasteBatch on an existing batch by a caller that is
\* not its current owner reverts with AuthorizationError and changes nothing.
C12_Original ==
  [][lastCall'.fn = "transferWasteBatch" =>
       \A sender \in Callers, batchId \in BatchIds :
         ( /\ Exists(batchId)
           /\ sender # wasteBatches[batchId].currentOwner
           /\ transferWasteBatch(sender, batchId) )
         => /\ ErrorOf(lastCall'.revert) = "AuthorizationError"
            /\ UNCHANGED storage]_vars

\* C12 amended: transferWasteBatch on an existing batch by a caller that is
\* not its current owner reverts and changes nothing; the error is
\* AuthorizationError when the batch is COMMITTED and InvalidStateError when
\* it is CREATED or TRANSFERRED, the status being checked first.
C12_NonOwnerTransferRejected ==
  [][lastCall'.fn = "transferWasteBatch" =>
       \A sender \in Callers, batchId \in BatchIds :
         ( /\ Exists(batchId)
           /\ sender # wasteBatches[batchId].currentOwner
           /\ transferWasteBatch(sender, batchId) )
         => /\ UNCHANGED storage
            /\ wasteBatches[batchId].status = "COMMITTED" =>
                 ErrorOf(lastCall'.revert) = "AuthorizationError"
            /\ wasteBatches[batchId].status # "COMMITTED" =>
                 ErrorOf(lastCall'.revert) = "InvalidStateError"]_vars

C12_Witness ==
  /\ lastCall.fn = "transferWasteBatch"
  /\ lastCall.revert = "Not batch owner"
  /\ \E batchId \in BatchIds : wasteBatches[batchId].status = "COMMITTED"

\* C13: a successful transferWasteBatch(id) sets currentOwner to the
\* committedBuyer held before the call and the status to TRANSFERRED; once the
\* transfer of id is logged, every commitToPurchase(id) and every
\* transferWasteBatch(id), by any caller, reverts with InvalidStateError.
C13_TransferredIsTerminal ==
  [][lastCall'.fn \in {"commitToPurchase", "transferWasteBatch"} =>
       \A sender \in Callers, batchId \in BatchIds :
         LET done == EventsNamed("WasteBatchTransferred", batchId) # {}
         IN /\ ( transferWasteBatch(sender, batchId)
                 /\ lastCall'.revert = "" )
               => /\ wasteBatches'[batchId].currentOwner =
                       wasteBatches[batchId].committedBuyer
                  /\ wasteBatches'[batchId].status = "TRANSFERRED"
            /\ ( done /\ ( \/ commitToPurchase(sender, batchId)
                           \/ transferWasteBatch(sender, batchId) ) )
               => /\ ErrorOf(lastCall'.revert) = "InvalidStateError"
                  /\ UNCHANGED storage]_vars

\* The new owner's own transfer attempt on the transferred batch was rejected.
C13_Witness ==
  /\ lastCall.fn = "transferWasteBatch"
  /\ lastCall.revert = "Buyer not committed"
  /\ nextBatchId = 2
  /\ wasteBatches[1].status = "TRANSFERRED"

\* C14: a call of any function that reverts leaves the batch mapping, the
\* counter and the event log exactly as they were before the call.
C14_RejectedCallsChangeNothing ==
  [][lastCall'.revert # "" =>
       /\ wasteBatches' = wasteBatches
       /\ nextBatchId' = nextBatchId
       /\ events' = events]_vars

C14_Witness ==
  /\ lastCall.fn = "createWasteBatch"
  /\ lastCall.revert = "OwnableUnauthorizedAccount"
  /\ Len(events) = 2
  /\ \E batchId \in BatchIds : wasteBatches[batchId].status = "COMMITTED"

\* C16: getWasteBatch(id) returns the stored batch exactly when
\* 1 <= id < nextBatchId, reverts with NotFoundError for every other id (0
\* included, in every state), and never changes storage or the log.
C16_GetBatch ==
  [][lastCall'.fn = "getWasteBatch" =>
       \A batchId \in BatchIds :
         getWasteBatch(batchId) =>
           LET allocated == 1 <= batchId /\ batchId < nextBatchId
           IN /\ UNCHANGED storage
              /\ allocated => /\ lastCall'.revert = ""
                              /\ lastCall'.retBatch = wasteBatches[batchId]
                              /\ lastCall'.retBatch.batchId = batchId
              /\ ~allocated =>
                   ErrorOf(lastCall'.revert) = "NotFoundError"]_vars

C16_Witness ==
  /\ lastCall.fn = "getWasteBatch"
  /\ lastCall.revert = ""
  /\ lastCall.retBatch.status = "TRANSFERRED"
  /\ lastCall.retBatch = wasteBatches[lastCall.retBatch.batchId]

\* C17: in every state the existing batches are exactly the ids
\* 1..nextBatchId-1, each stored under its own non-zero batchId and created
\* by exactly one WasteBatchCreated event; an existing entry exists in every
\* later state with the same batchId, and no later create writes its key.
C17_RegistryGrowsOnly ==
  /\ [](\A batchId \in BatchIds :
          /\ Exists(batchId) <=> (1 <= batchId /\ batchId < nextBatchId)
          /\ Exists(batchId) => wasteBatches[batchId].batchId = batchId
          /\ Cardinality(EventsNamed("WasteBatchCreated", batchId)) =
               IF Exists(batchId) THEN 1 ELSE 0)
  /\ [][\A batchId \in BatchIds :
          Exists(batchId) =>
            /\ wasteBatches'[batchId].batchId = batchId
            /\ EventsNamed("WasteBatchCreated", batchId)' =
                 EventsNamed("WasteBatchCreated", batchId)]_vars

C17_Witness ==
  /\ nextBatchId = 3
  /\ Exists(1) /\ Exists(2) /\ ~Exists(3) /\ ~Exists(0)
  /\ wasteBatches[1].status = "TRANSFERRED"

\* C19: a successful createWasteBatch appends exactly one WasteBatchCreated
\* event with the new id, the seller, the category and the quantity; a
\* successful transferWasteBatch appends exactly one WasteBatchTransferred
\* event with the id, the owner before the call and the new owner (the
\* committed buyer); a reverted call appends nothing.
C19_Notifications ==
  [][/\ ( lastCall'.fn = "createWasteBatch" /\ lastCall'.revert = "" ) =>
          \A sender \in Callers, category \in Categories,
             quantityArg \in QuantityArgs, seller \in Address :
            createWasteBatch(sender, category, quantityArg, seller) =>
              events' = Append(events,
                [name |-> "WasteBatchCreated", batchId |-> lastCall'.ret,
                 a |-> seller, b |-> NullAddress, category |-> category,
                 quantity |-> ToUint256(quantityArg)])
     /\ ( lastCall'.fn = "transferWasteBatch" /\ lastCall'.revert = "" ) =>
          \A sender \in Callers, batchId \in BatchIds :
            transferWasteBatch(sender, batchId) =>
              /\ events' = Append(events,
                   [name |-> "WasteBatchTransferred", batchId |-> batchId,
                    a |-> wasteBatches[batchId].currentOwner,
                    b |-> wasteBatches[batchId].committedBuyer,
                    category |-> "", quantity |-> 0])
              /\ wasteBatches'[batchId].currentOwner =
                   wasteBatches[batchId].committedBuyer
     /\ lastCall'.revert # "" => events' = events]_vars

C19_Witness ==
  /\ lastCall.fn = "transferWasteBatch"
  /\ lastCall.revert = ""
  /\ Len(events) = 4
  /\ events[4].name = "WasteBatchTransferred"
  /\ events[4].b = wasteBatches[events[4].batchId].currentOwner
  /\ events[4].a # events[4].b

\* C20: batchId, category, quantity and createdAt of an existing batch keep
\* the values given at creation across every step (commit, transfer, later
\* create, any reverted call).
C20_CreationFieldsImmutable ==
  [][\A batchId \in BatchIds :
       Exists(batchId) =>
         /\ wasteBatches'[batchId].batchId = wasteBatches[batchId].batchId
         /\ wasteBatches'[batchId].category = wasteBatches[batchId].category
         /\ wasteBatches'[batchId].quantity = wasteBatches[batchId].quantity
         /\ wasteBatches'[batchId].createdAt =
              wasteBatches[batchId].createdAt]_vars

C20_Witness ==
  /\ nextBatchId = 3
  /\ wasteBatches[1].status = "TRANSFERRED"
  /\ wasteBatches[1].createdAt = 1
  /\ wasteBatches[2].createdAt = 2
  /\ wasteBatches[1].category = "fly_ash"
  /\ wasteBatches[1].quantity = 1

\* C18: on a fresh registry, createWasteBatch("fly_ash", 100, seller) by the
\* administrator returns 1; when commitToPurchase(1) by buyer is the next
\* call to take effect, getWasteBatch(1) shows COMMITTED and committedBuyer =
\* buyer; when transferWasteBatch(1) by seller is the next after that,
\* getWasteBatch(1) shows TRANSFERRED and currentOwner = buyer.  seller and
\* buyer are two further signers, distinct from the administrator.
C18_EndToEnd ==
  [][\A seller \in Callers \ {owner} :
       \A buyer \in Callers \ {owner, seller} :
         LET created == WasteBatchCreated(1, seller, "fly_ash", ScriptQuantity)
             committed == PurchaseCommitted(1, buyer)
             view == readWasteBatch(wasteBatches', 1)
         IN /\ ( /\ events = <<>> /\ nextBatchId = 1
                 /\ createWasteBatch(owner, "fly_ash", ScriptQuantity,
                                     seller) )
               => /\ lastCall'.revert = ""
                  /\ lastCall'.ret = 1
            /\ ( /\ events = <<created>>
                 /\ commitToPurchase(buyer, 1) )
               => /\ lastCall'.revert = ""
                  /\ view.revert = ""
                  /\ view.batch.status = "COMMITTED"
                  /\ view.batch.committedBuyer = buyer
            /\ ( /\ events = <<created, committed>>
                 /\ transferWasteBatch(seller, 1) )
               => /\ lastCall'.revert = ""
                  /\ view.revert = ""
                  /\ view.batch.status = "TRANSFERRED"
                  /\ view.batch.currentOwner = buyer
            /\ ( /\ Len(events) = 3
                 /\ SubSeq(events, 1, 2) = <<created, committed>>
                 /\ events[3].name = "WasteBatchTransferred"
                 /\ getWasteBatch(1) )
               => /\ lastCall'.revert = ""
                  /\ lastCall'.retBatch.status = "TRANSFERRED"
                  /\ lastCall'.retBatch.currentOwner = buyer]_vars

\* The script has run to its end: the three events are the whole log and the
\* final read returned the batch owned by the buyer.
C18_Witness ==
  /\ Len(events) = 3
  /\ events[1].name = "WasteBatchCreated"
  /\ events[1].quantity = ScriptQuantity
  /\ events[1].category = "fly_ash"
  /\ events[2].name = "PurchaseCommitted"
  /\ events[3].name = "WasteBatchTransferred"
  /\ events[1].a # owner /\ events[2].a # owner
  /\ lastCall.fn = "getWasteBatch"
  /\ lastCall.retBatch.batchId = 1
  /\ lastCall.retBatch.status = "TRANSFERRED"
  /\ lastCall.retBatch.currentOwner = events[2].a

\* C15: while a guarded operation is in flight, an invocation of
\* commitToPurchase or transferWasteBatch is rejected at once with the
\* re-entrancy error and changes no batch (nor anything else stored): the
\* invocation is always able to return, and so is the call in flight.
C15_NestedCallRejected ==
  /\ [](reentrancyStatus = "ENTERED" =>
          /\ \A fn \in GuardedFunctions, sender \in Callers,
                batchId \in BatchIds :
                ENABLED nestedCall(fn, sender, batchId)
          /\ \E fn \in GuardedFunctions, sender \in Callers,
                batchId \in BatchIds :
                ENABLED exitGuarded(fn, sender, batchId))
  /\ [][reentrancyStatus = "ENTERED" =>
          \A fn \in GuardedFunctions, sender \in Callers,
             batchId \in BatchIds :
            nestedCall(fn, sender, batchId) =>
              /\ lastCall'.fn = fn
              /\ ErrorOf(lastCall'.revert) = "ReentrancyError"
              /\ UNCHANGED storage]_vars

\* A commit on an open batch arrived while a call was in flight and was
\* turned away.
C15_Witness ==
  /\ reentrancyStatus = "ENTERED"
  /\ lastCall.fn = "commitToPurchase"
  /\ lastCall.revert = "ReentrancyGuardReentrantCall"
  /\ \E batchId \in BatchIds :
       /\ Exists(batchId)
       /\ wasteBatches[batchId].status = "CREATED"

\* C21: transferWasteBatch checks existence, then status, then ownership: on
\* a missing batch any caller gets NotFoundError; on an existing batch that
\* is CREATED or TRANSFERRED any caller, owner or not, gets
\* InvalidStateError; AuthorizationError is returned exactly when the batch
\* is COMMITTED and the caller is not its current owner.
C21_TransferCheckOrder ==
  [][lastCall'.fn = "transferWasteBatch" =>
       \A sender \in Callers, batchId \in BatchIds :
         transferWasteBatch(sender, batchId) =>
           LET batch == wasteBatches[batchId]
               error == ErrorOf(lastCall'.revert)
           IN /\ ~Exists(batchId) => error = "NotFoundError"
              /\ ( Exists(batchId) /\ batch.status # "COMMITTED" )
                 => error = "InvalidStateError"
              /\ error = "AuthorizationError"
                 <=> /\ Exists(batchId)
                     /\ batch.status = "COMMITTED"
                     /\ sender # batch.currentOwner]_vars

\* A transfer was attempted on the only batch, still CREATED, and failed on
\* its status.
C21_Witness ==
  /\ lastCall.fn = "transferWasteBatch"
  /\ lastCall.revert = "Buyer not committed"
  /\ nextBatchId = 2
  /\ Exists(1)
  /\ wasteBatches[1].status = "CREATED"

\* C22: commitToPurchase checks existence, then status, then self-dealing:
\* SelfDealingError is returned exactly when the batch exists, is CREATED and
\* the caller is its current owner; the current owner (the seller of a
\* COMMITTED batch, the new owner of a TRANSFERRED one) calling it on a batch
\* that is not CREATED gets InvalidStateError.
C22_CommitCheckOrder ==
  [][lastCall'.fn = "commitToPurchase" =>
       \A sender \in Callers, batchId \in BatchIds :
         commitToPurchase(sender, batchId) =>
           LET batch == wasteBatches[batchId]
               error == ErrorOf(lastCall'.revert)
           IN /\ ~Exists(batchId) => error = "NotFoundError"
              /\ error = "SelfDealingError"
                 <=> /\ Exists(batchId)
                     /\ batch.status = "CREATED"
                     /\ sender = batch.currentOwner
              /\ ( /\ Exists(batchId)
                   /\ batch.status # "CREATED"
                   /\ sender = batch.currentOwner )
                 => error = "InvalidStateError"]_vars

\* A commit was attempted on the only batch after its transfer and failed
\* on its status.
C22_Witness ==
  /\ lastCall.fn = "commitToPurchase"
  /\ lastCall.revert = "Not available"
  /\ nextBatchId = 2
  /\ wasteBatches[1].status = "TRANSFERRED"
  /\ wasteBatches[1].currentOwner = wasteBatches[1].committedBuyer

\* C23: a COMMITTED batch always has a non-zero committedBuyer, so the
\* "No buyer committed" check of transferWasteBatch never fails: no call is
\* ever rejected with it, and every transferWasteBatch by the current owner
\* of a COMMITTED batch succeeds.
C23_DefensiveCheckNeverFails ==
  /\ [](\A batchId \in BatchIds :
          wasteBatches[batchId].status = "COMMITTED" =>
            wasteBatches[batchId].committedBuyer # NullAddress)
  /\ [](lastCall.revert # "No buyer committed")
  /\ [][lastCall'.fn = "transferWasteBatch" =>
          \A sender \in Callers, batchId \in BatchIds :
            ( /\ wasteBatches[batchId].status = "COMMITTED"
              /\ sender = wasteBatches[batchId].currentOwner
              /\ transferWasteBatch(sender, batchId) )
            => lastCall'.revert = ""]_vars

\* The owner's transfer of the only batch went through to its buyer.
C23_Witness ==
  /\ lastCall.fn = "transferWasteBatch"
  /\ lastCall.revert = ""
  /\ nextBatchId = 2
  /\ wasteBatches[1].status = "TRANSFERRED"
  /\ wasteBatches[1].currentOwner # NullAddress

\* C24: commitToPurchase on an existing CREATED batch succeeds for every
\* caller other than its currentOwner, the administrator included, with no
\* approval step; and once a batch has left CREATED, no step of any caller
\* returns it to CREATED or changes its committedBuyer.
C24_CommitPermissionless ==
  /\ [][lastCall'.fn = "commitToPurchase" =>
          \A sender \in Callers, batchId \in BatchIds :
            ( /\ Exists(batchId)
              /\ wasteBatches[batchId].status = "CREATED"
              /\ sender # wasteBatches[batchId].currentOwner
              /\ commitToPurchase(sender, batchId) )
            => /\ lastCall'.revert = ""
               /\ wasteBatches'[batchId].status = "COMMITTED"
               /\ wasteBatches'[batchId].committedBuyer = sender]_vars
  /\ [][\A batchId \in BatchIds :
          wasteBatches[batchId].status # "CREATED" =>
            /\ wasteBatches'[batchId].status # "CREATED"
            /\ wasteBatches'[batchId].committedBuyer =
                 wasteBatches[batchId].committedBuyer]_vars

\* The administrator holds the commitment on the only batch, and a later
\* commit on it was turned away.
C24_Witness ==
  /\ lastCall.fn = "commitToPurchase"
  /\ lastCall.revert = "Not available"
  /\ nextBatchId = 2
  /\ wasteBatches[1].status = "COMMITTED"
  /\ wasteBatches[1].committedBuyer = owner

\* C25: when a top-level commitToPurchase or transferWasteBatch completes,
\* returned or reverted, the guard's flag is clear and the call was not
\* rejected by the guard; a re-entrancy rejection is only ever the latest
\* result while a call is still in flight.  (Each step either ends with the
\* flag clear and a result of fn that is no re-entrancy error, or is not the
\* completion of a top-level call of fn.)
C25_GuardReleased ==
  /\ [](ErrorOf(lastCall.revert) = "ReentrancyError" =>
          reentrancyStatus = "ENTERED")
  /\ [][\A fn \in GuardedFunctions :
          \/ /\ reentrancyStatus' = "NOT_ENTERED"
             /\ lastCall'.fn = fn
             /\ ErrorOf(lastCall'.revert) # "ReentrancyError"
          \/ \A sender \in Callers, batchId \in BatchIds :
               /\ ~exitGuarded(fn, sender, batchId)
               /\ ~( /\ reentrancyStatus = "NOT_ENTERED"
                     /\ fn = "commitToPurchase"
                     /\ commitToPurchase(sender, batchId) )
               /\ ~( /\ reentrancyStatus = "NOT_ENTERED"
                     /\ fn = "transferWasteBatch"
                     /\ transferWasteBatch(sender, batchId) )]_vars

\* A transfer by a caller other than the owner was rejected and the guard is
\* free again.
C25_Witness ==
  /\ reentrancyStatus = "NOT_ENTERED"
  /\ lastCall.fn = "transferWasteBatch"
  /\ lastCall.revert = "Not batch owner"
  /\ Len(events) = 2

\* C26: when on every batch an eligible caller keeps committing and the
\* current owner keeps transferring, every created batch eventually is
\* TRANSFERRED; and a COMMITTED batch leaves COMMITTED only in a step that is
\* its current owner's transferWasteBatch, a transferWasteBatch on it by
\* anyone else (committed buyer, administrator, third party) changing
\* nothing.
C26_EventuallyTransferred ==
  /\ \A batchId \in 1..MaxBatches :
       Exists(batchId) ~> wasteBatches[batchId].status = "TRANSFERRED"
  /\ [][\A batchId \in BatchIds :
          wasteBatches[batchId].status = "COMMITTED" =>
            /\ wasteBatches'[batchId].status # "COMMITTED" =>
                 ownerTransfer(batchId)
            /\ \A sender \in Callers \ {wasteBatches[batchId].currentOwner} :
                 transferWasteBatch(sender, batchId) => UNCHANGED storage]_vars

\* One batch has gone all the way, another is held at COMMITTED after a
\* transfer attempted by somebody other than its owner.
C26_Witness ==
  /\ lastCall.fn = "transferWasteBatch"
  /\ lastCall.revert = "Not batch owner"
  /\ \E i, j \in BatchIds :
       /\ wasteBatches[i].status = "TRANSFERRED"
       /\ wasteBatches[j].status = "COMMITTED"

\* C27: for every existing batch in every reachable state, while it is
\* COMMITTED its committedBuyer differs from its currentOwner, and once it is
\* TRANSFERRED its committedBuyer equals its currentOwner and its
\* currentOwner differs from the seller named when it was created.
C27_BuyerOwnerRelation ==
  \A batchId \in BatchIds :
    Exists(batchId) =>
      LET batch == wasteBatches[batchId] IN
      /\ batch.status = "COMMITTED" =>
           batch.committedBuyer # batch.currentOwner
      /\ batch.status = "TRANSFERRED" =>
           /\ batch.committedBuyer = batch.currentOwner
           /\ \A i \in EventsNamed("WasteBatchCreated", batchId) :
                events[i].a # batch.currentOwner

\* The same buyer holds the commitment on batch 1 and owns batch 2 after its
\* transfer.
C27_Witness ==
  /\ nextBatchId = 3
  /\ wasteBatches[1].status = "COMMITTED"
  /\ wasteBatches[2].status = "TRANSFERRED"
  /\ wasteBatches[1].committedBuyer = wasteBatches[2].currentOwner

\* C28: in every reachable state the log agrees with the batches: a batch
\* that exists has exactly one WasteBatchCreated event (one that does not has
\* none), at most one PurchaseCommitted and at most one WasteBatchTransferred
\* event, in that order in the log; it is COMMITTED or TRANSFERRED iff it
\* has a PurchaseCommitted event, which carries its committedBuyer, and
\* TRANSFERRED iff it has a WasteBatchTransferred event, whose "to" is its
\* currentOwner.
C28_LogConsistent ==
  \A batchId \in BatchIds :
    LET batch == wasteBatches[batchId]
        created == EventsNamed("WasteBatchCreated", batchId)
        committed == EventsNamed("PurchaseCommitted", batchId)
        transferred == EventsNamed("WasteBatchTransferred", batchId)
    IN /\ Cardinality(created) = IF Exists(batchId) THEN 1 ELSE 0
       /\ Cardinality(committed) <= 1
       /\ Cardinality(transferred) <= 1
       /\ \A i \in created, j \in committed : i < j
       /\ \A j \in committed, k \in transferred : j < k
       /\ transferred # {} => committed # {}
       /\ committed # {} => created # {}
       /\ batch.status \in {"COMMITTED", "TRANSFERRED"} <=> committed # {}
       /\ \A j \in committed : events[j].a = batch.committedBuyer
       /\ batch.status = "TRANSFERRED" <=> transferred # {}
       /\ \A k \in transferred : events[k].b = batch.currentOwner

\* Two batches were created, then the second was committed to and
\* transferred while the first stayed open.
C28_Witness ==
  /\ Len(events) = 4
  /\ events[1].name = "WasteBatchCreated"
  /\ events[2].name = "WasteBatchCreated"
  /\ events[3].name = "PurchaseCommitted" /\ events[3].batchId = 2
  /\ events[4].name = "WasteBatchTransferred" /\ events[4].batchId = 2
  /\ wasteBatches[1].status = "CREATED"
  /\ wasteBatches[2].status = "TRANSFERRED"

\* C29: a commitToPurchase or transferWasteBatch on batch i leaves every
\* other batch and nextBatchId as they were, and whether it succeeds is
\* settled by the caller and the fields of batch i alone; a createWasteBatch
\* leaves every batch that already exists as it was.
C29_BatchesIndependent ==
  /\ [][lastCall'.fn = "createWasteBatch" =>
          \A j \in BatchIds :
            Exists(j) => wasteBatches'[j] = wasteBatches[j]]_vars
  /\ [][lastCall'.fn \in {"commitToPurchase", "transferWasteBatch"} =>
          \A sender \in Callers, i \in BatchIds :
            LET batch == wasteBatches[i] IN
            /\ commitToPurchase(sender, i) =>
                 /\ \A j \in BatchIds \ {i} :
                      wasteBatches'[j] = wasteBatches[j]
                 /\ nextBatchId' = nextBatchId
                 /\ lastCall'.revert = "" <=>
                      /\ batch.batchId # 0
                      /\ batch.status = "CREATED"
                      /\ sender # batch.currentOwner
            /\ transferWasteBatch(sender, i) =>
                 /\ \A j \in BatchIds \ {i} :
                      wasteBatches'[j] = wasteBatches[j]
                 /\ nextBatchId' = nextBatchId
                 /\ lastCall'.revert = "" <=>
                      /\ batch.status = "COMMITTED"
                      /\ sender = batch.currentOwner]_vars

\* A commit on batch 2 went through while batch 1 was already TRANSFERRED.
C29_Witness ==
  /\ lastCall.fn = "commitToPurchase"
  /\ lastCall.revert = ""
  /\ nextBatchId = 3
  /\ wasteBatches[1].status = "TRANSFERRED"
  /\ wasteBatches[2].status = "COMMITTED"

\* C30: in every reachable state every existing batch has quantity > 0 and a
\* non-zero currentOwner; and a batch comes to exist only in a step that is a
\* successful createWasteBatch by the administrator, never in a step of a
\* call by anyone else.
C30_BatchesWellFormed ==
  /\ [](\A batchId \in BatchIds :
          Exists(batchId) =>
            /\ wasteBatches[batchId].quantity > 0
            /\ wasteBatches[batchId].currentOwner # NullAddress)
  /\ [][\A batchId \in BatchIds :
          ( ~Exists(batchId) /\ wasteBatches'[batchId].batchId # 0 ) =>
            /\ lastCall'.fn = "createWasteBatch"
            /\ lastCall'.revert = ""
            /\ lastCall'.ret = batchId
            /\ \E category \in Categories, quantityArg \in QuantityArgs,
                  seller \in Address :
                  createWasteBatch(owner, category, quantityArg, seller)
            /\ \A sender \in Callers \ {owner}, category \in Categories,
                  quantityArg \in QuantityArgs, seller \in Address :
                  ~createWasteBatch(sender, category, quantityArg, seller)
            /\ \A sender \in Callers, id \in BatchIds :
                  /\ ~commitToPurchase(sender, id)
                  /\ ~transferWasteBatch(sender, id)]_vars

\* The administrator created a second batch after the first had been
\* transferred to its buyer.
C30_Witness ==
  /\ lastCall.fn = "createWasteBatch"
  /\ lastCall.revert = ""
  /\ lastCall.ret = 2
  /\ wasteBatches[1].status = "TRANSFERRED"
  /\ wasteBatches[2].quantity > 0
  /\ wasteBatches[2].currentOwner # NullAddress

C32_SessionState ==
  /\ [][clientCall'.fn \in {"registerUser", "loginUser"} =>
          \A response \in AuthResponses :
            ( registerUser(response) \/ loginUser(response) ) =>
              IF ~response.rejected /\ response.success
                 /\ response.token \in {"token-a", "token-b"}
                THEN /\ localStorage'["auth_token"] = response.token
                     /\ response.hasUser =>
                          /\ localStorage'["user_id"] = response.user.id
                          /\ localStorage'["user_email"] =
                               response.user.email
                          /\ localStorage'["user_company"] =
                               IF response.user.company_name = Undefined
                                 THEN "" ELSE response.user.company_name
                ELSE UNCHANGED localStorage]_vars
  /\ [][localStorage' # localStorage =>
          clientCall'.fn \in {"registerUser", "loginUser", "logoutUser"}]_vars
  /\ [][logoutUser => \A key \in StorageKeys : localStorage'[key] = Null]_vars
  /\ [][localStorage["auth_token"] = Null =>
          /\ clientCall'.fn = "isAuthenticated" =>
               ~clientCall'.authenticated
          /\ clientCall'.fn = "getCurrentUser" =>
               clientCall'.user = Null /\ ~clientCall'.requested
          /\ clientCall'.requested => clientCall'.tokenParam = Null
          /\ localStorage'["auth_token"] # Null =>
               /\ clientCall'.fn \in {"registerUser", "loginUser"}
               /\ clientCall'.requested]_vars

\* A login from the signed-out state stored the session of a user without
\* a company name.
C32_Witness ==
  /\ clientCall.fn = "loginUser"
  /\ clientCall.outcome = "resolved"
  /\ clientCall.success
  /\ clientCall.tokenParam = Null
  /\ localStorage["auth_token"] = "token-a"
  /\ localStorage["user_id"] = "user-2"
  /\ localStorage["user_company"] = ""

====
